---- MODULE Spec2Model ----
(***************************************************************************)
(* A model of the notes tool's metadata subsystem: the note files of the   *)
(* notes directory, the metadata index (.meta.json, MetaFile.Files), the   *)
(* index's relation and staleness operations, the sync / update / diff     *)
(* commands, the neighbourhood traversal and the shared tags of `notes     *)
(* graph`, the note codec at text level, .meta.json as a file on disk, the *)
(* filenames of `notes new`, and two invocations running at once.          *)
(***************************************************************************)
EXTENDS Integers, Sequences, FiniteSets, TLC

VARIABLES
    files,         \* notes directory: filename -> what ParseNote returns for it
    meta,          \* MetaFile.Files: filename -> FileMeta
    enrichedBody,  \* history: filename -> body at the note's last enrichment
    last,          \* history: the operation that produced this state
    trav,          \* the running neighbourhood traversal of `notes graph`
    codec,         \* a note at text level: the record, its file text, the parse
    store,         \* .meta.json on disk and the command that is writing it
    proc           \* two invocations running at once: position, memory, events

vars == <<files, meta, enrichedBody, last, trav, codec, store, proc>>

----------------------------------------------------------------------------
(* Bounds and value sets                                                   *)

\* Largest number of related items, summed over all entries, of an initial index.
MaxRel == 2
\* Largest clock value time.Now() returns; 0 is the zero time.Time (never enriched).
MaxTime == 1
\* Largest --depth a traversal is started with (the smallest is -1).
MaxDepth == 5
\* Largest number of nodes a traversal may emit before the model stops it.
MaxOut == 8

Ids == {"a.md", "b.md", "c.md"}
Bodies == {"\nalpha\n", "\nbeta\n"}
NoBody == "<never enriched>"
NotGiven == "<flag not given>"

SeqsUpTo(S, n) == UNION {[1..k -> S] : k \in 0..n}

EmptyMap == [x \in {} |-> x]

----------------------------------------------------------------------------
(* Content fingerprint                                                     *)

\* sha256 of the body, first 12 hex characters.
ContentHash(body) ==
    CASE body = "\nalpha\n" -> "1f8c902adf8a"
      [] body = "\nbeta\n"  -> "13474ab025a8"

Hashes == {ContentHash(b) : b \in Bodies}

\* Variant: the fingerprint covers the summary of the header as well.
NoteContentHashWithHeader(note) ==
    IF note.summary = "" THEN ContentHash(note.body) ELSE "5f2b51ca2fdc"

\* n.ContentHash(): the method reads n.Content only.
NoteContentHash(note) == ContentHash(note.body)

----------------------------------------------------------------------------
(* The metadata index: MetaFile and its operations                         *)

\* Variant: looks at the first element only.
ContainsFirstOnly(slice, item) == Len(slice) > 0 /\ slice[1] = item

Contains(slice, item) == \E i \in 1..Len(slice) : slice[i] = item

\* Variant: drops the first occurrence only.
RECURSIVE RemoveFirstString(_, _)
RemoveFirstString(slice, item) ==
    IF slice = <<>> THEN <<>>
    ELSE IF Head(slice) = item THEN Tail(slice)
    ELSE <<Head(slice)>> \o RemoveFirstString(Tail(slice), item)

RemoveString(slice, item) == SelectSeq(slice, LAMBDA s : s /= item)

GetFileMeta(m, filename) == filename \in DOMAIN m

\* Variant: an entry that was never enriched also counts as stale.
NeedsEnrichmentUnlessStamped(m, filename, currentHash) ==
    \/ filename \notin DOMAIN m
    \/ m[filename].content_hash /= currentHash
    \/ m[filename].enriched_at = 0

NeedsEnrichment(m, filename, currentHash) ==
    IF ~GetFileMeta(m, filename)
    THEN TRUE
    ELSE m[filename].content_hash /= currentHash

\* The zero FileMeta{} a missing entry is created as.
ZeroFileMeta ==
    [content_hash |-> "", enriched_at |-> 0, tags |-> <<>>, summary |-> "",
     related |-> <<>>]

SetFileMeta(m, filename, fm) ==
    [x \in DOMAIN m \cup {filename} |-> IF x = filename THEN fm ELSE m[x]]

UpdateFromNote(m, filename, note) ==
    LET old == IF GetFileMeta(m, filename) THEN m[filename] ELSE ZeroFileMeta
    IN  SetFileMeta(m, filename,
            [old EXCEPT !.content_hash = NoteContentHash(note),
                        !.tags = note.tags,
                        !.summary = note.summary,
                        !.related = note.related])

UpdateFromNoteWithEnrichment(m, filename, note, now) ==
    LET m1 == UpdateFromNote(m, filename, note)
    IN  [m1 EXCEPT ![filename].enriched_at = now]

\* Variant: the reverse side is not updated.
AddRelationOneWay(m, from, to) ==
    IF from \in DOMAIN m /\ \A i \in 1..Len(m[from].related) : m[from].related[i] /= to
    THEN [m EXCEPT ![from].related = Append(@, to)]
    ELSE m

\* Variant: a side without an entry gets a fresh entry holding the relation.
AddRelationCreating(m, from, to) ==
    LET side(mm, x, y) ==
            IF x \in DOMAIN mm
            THEN IF \E i \in 1..Len(mm[x].related) : mm[x].related[i] = y
                 THEN mm
                 ELSE [mm EXCEPT ![x].related = Append(@, y)]
            ELSE [z \in DOMAIN mm \cup {x} |->
                    IF z = x
                    THEN [content_hash |-> "", enriched_at |-> 0, tags |-> <<>>,
                          summary |-> "", related |-> <<y>>]
                    ELSE mm[z]]
    IN  side(side(m, from, to), to, from)

AddRelation(m, from, to) ==
    LET m1 == IF GetFileMeta(m, from) /\ ~Contains(m[from].related, to)
              THEN [m EXCEPT ![from].related = Append(@, to)]
              ELSE m
    IN  IF GetFileMeta(m1, to) /\ ~Contains(m1[to].related, from)
        THEN [m1 EXCEPT ![to].related = Append(@, from)]
        ELSE m1

\* Variant: the reverse side is not updated.
RemoveRelationOneWay(m, from, to) ==
    IF from \in DOMAIN m
    THEN [m EXCEPT ![from].related = SelectSeq(@, LAMBDA s : s /= to)]
    ELSE m

RemoveRelation(m, from, to) ==
    LET m1 == IF GetFileMeta(m, from)
              THEN [m EXCEPT ![from].related = RemoveString(@, to)]
              ELSE m
    IN  IF GetFileMeta(m1, to)
        THEN [m1 EXCEPT ![to].related = RemoveString(@, from)]
        ELSE m1

----------------------------------------------------------------------------
(* History record of the last operation                                    *)

Op(op, a, b, h, res, pre) ==
    [op |-> op, a |-> a, b |-> b, h |-> h, res |-> res, pre |-> pre,
     force |-> FALSE, dryRun |-> FALSE]

OpSync(force, dryRun, pre) ==
    [Op("CmdSync", "", "", "", FALSE, pre) EXCEPT !.force = force, !.dryRun = dryRun]

\* The record of `notes update`: its flags, and the index and the note files
\* it found.
OpUpdate(f, flags, pre, preFiles) ==
    [op |-> "CmdUpdate", a |-> f, b |-> "", h |-> "", res |-> FALSE, pre |-> pre,
     force |-> FALSE, dryRun |-> FALSE, flags |-> flags, preFiles |-> preFiles]

NoOp == Op("init", "", "", "", FALSE, EmptyMap)

\* No traversal is running.
IdleTrav ==
    [pc |-> "idle", root |-> "", depth |-> 0, asJSON |-> FALSE, stack |-> <<>>,
     visited |-> {}, out |-> <<>>, expanded |-> <<>>]

\* Note{} with the zero Frontmatter; created counts seconds from the zero time.
ZeroNote ==
    [created |-> 0, tags |-> <<>>, summary |-> "", related |-> <<>>, body |-> <<>>]

\* No note is being serialized or parsed.
IdleCodec ==
    [pc |-> "idle", from |-> "", note |-> ZeroNote, text |-> <<>>,
     err |-> FALSE, parsed |-> ZeroNote, hash |-> <<>>]

\* The invocations that run at once.
Procs == {1, 2}

\* No invocation has started.
IdleProcs ==
    [pc |-> [p \in Procs |-> "start"], mem |-> [p \in Procs |-> EmptyMap],
     log |-> <<>>]

\* No .meta.json exists and no command is running.
IdleStore ==
    [exists |-> FALSE, data |-> <<>>, pc |-> "idle", buf |-> <<>>,
     prior |-> [exists |-> FALSE, data |-> <<>>]]

----------------------------------------------------------------------------
(* SpecIndex: the index operations applied to an arbitrary index           *)

\* The fields an initial entry carries besides its related list: one never
\* enriched entry, two enriched ones with different fingerprints and tags.
EntryProfile(id) ==
    CASE id = "a.md" -> [content_hash |-> ContentHash("\nalpha\n"), enriched_at |-> 0,
                         tags |-> <<>>, summary |-> ""]
      [] id = "b.md" -> [content_hash |-> ContentHash("\nbeta\n"), enriched_at |-> MaxTime,
                         tags |-> <<"go", "Go">>, summary |-> "s"]
      [] OTHER       -> [content_hash |-> ContentHash("\nalpha\n"), enriched_at |-> MaxTime,
                         tags |-> <<"go">>, summary |-> ""]

EntrySeed(id, r) ==
    [content_hash |-> EntryProfile(id).content_hash,
     enriched_at |-> EntryProfile(id).enriched_at,
     tags |-> EntryProfile(id).tags,
     summary |-> EntryProfile(id).summary,
     related |-> r]

RECURSIVE TotalLen(_, _)
TotalLen(rel, S) ==
    IF S = {} THEN 0
    ELSE LET x == CHOOSE y \in S : TRUE
         IN  Len(rel[x]) + TotalLen(rel, S \ {x})

InitIndexes ==
    { [id \in DOMAIN rel |-> EntrySeed(id, rel[id])] :
        rel \in { r \in UNION {[S -> SeqsUpTo(Ids, MaxRel)] : S \in SUBSET Ids} :
                    TotalLen(r, DOMAIN r) <= MaxRel } }

InitIndex ==
    /\ meta \in InitIndexes
    /\ files = EmptyMap
    /\ enrichedBody = [i \in Ids |-> NoBody]
    /\ last = NoOp
    /\ proc = IdleProcs
    /\ trav = IdleTrav
    /\ codec = IdleCodec
    /\ store = IdleStore

ActAddRelation(a, b) ==
    /\ meta' = AddRelation(meta, a, b)
    /\ last' = Op("AddRelation", a, b, "", FALSE, meta)
    /\ UNCHANGED <<files, enrichedBody, trav, codec, store, proc>>

ActRemoveRelation(a, b) ==
    /\ meta' = RemoveRelation(meta, a, b)
    /\ last' = Op("RemoveRelation", a, b, "", FALSE, meta)
    /\ UNCHANGED <<files, enrichedBody, trav, codec, store, proc>>

ActNeedsEnrichment(f, h) ==
    /\ last' = Op("NeedsEnrichment", f, "", h, NeedsEnrichment(meta, f, h), meta)
    /\ UNCHANGED <<files, meta, enrichedBody, trav, codec, store, proc>>

NextIndex ==
    \/ \E a \in Ids, b \in Ids : ActAddRelation(a, b)
    \/ \E a \in Ids, b \in Ids : ActRemoveRelation(a, b)
    \/ \E f \in Ids, h \in Hashes : ActNeedsEnrichment(f, h)

SpecIndex == InitIndex /\ [][NextIndex]_vars

InitSym ==
    /\ meta \in { [id \in S |-> EntrySeed(id, <<>>)] : S \in SUBSET Ids }
    /\ files = EmptyMap
    /\ enrichedBody = [i \in Ids |-> NoBody]
    /\ last = NoOp
    /\ proc = IdleProcs
    /\ trav = IdleTrav
    /\ codec = IdleCodec
    /\ store = IdleStore

NextSym ==
    \/ \E a \in Ids, b \in Ids : ActAddRelation(a, b)
    \/ \E a \in Ids, b \in Ids : ActRemoveRelation(a, b)

\* The relation operations alone, from an index without relations.
SpecSym == InitSym /\ [][NextSym]_vars

----------------------------------------------------------------------------
(* Note files and the commands working on them                             *)

\* The notes the command specification creates.
NoteIds == {"a.md", "b.md"}

\* A file whose header cannot be decoded: ParseNote returns an error.
BadFile ==
    [valid |-> FALSE, body |-> "", tags |-> <<>>, summary |-> "", related |-> <<>>]

NoteFile(body, tags, summary, related) ==
    [valid |-> TRUE, body |-> body, tags |-> tags, summary |-> summary,
     related |-> related]

\* ParseNote succeeds: the file exists and its header decodes.
ParseOK(fs, f) == f \in DOMAIN fs /\ fs[f].valid

\* Header values an editor session leaves behind.
Headers ==
    { [tags |-> <<>>, summary |-> ""], [tags |-> <<"go">>, summary |-> "s"] }

\* The bodies written into a note: a.md takes every body, the others one.
BodiesOf(f) == IF f = "a.md" THEN Bodies ELSE {"\nbeta\n"}

\* What an editor session can leave in file f.
FileContents(f) ==
    {BadFile} \cup
    {NoteFile(b, h.tags, h.summary, <<>>) : b \in BodiesOf(f), h \in Headers}

\* The flag values `notes update` is run with: --tags and --summary together or
\* neither, --related not given.
UpdateFlags ==
    { [tags |-> NotGiven, summary |-> NotGiven, related |-> NotGiven],
      [tags |-> <<"go">>, summary |-> "s", related |-> NotGiven] }

\* Variant: an entry is rewritten only when the note's body changed.
SyncUpdateOnContentChange(m, fs) ==
    [f \in DOMAIN m \cup {g \in DOMAIN fs : fs[g].valid} |->
        IF ParseOK(fs, f) /\ (~GetFileMeta(m, f)
                                \/ m[f].content_hash /= NoteContentHash(fs[f]))
        THEN [content_hash |-> NoteContentHash(fs[f]),
              enriched_at |-> IF GetFileMeta(m, f) THEN m[f].enriched_at
                              ELSE ZeroFileMeta.enriched_at,
              tags |-> fs[f].tags,
              summary |-> fs[f].summary,
              related |-> fs[f].related]
        ELSE m[f]]

\* Variant: the loop ends at the first note that does not parse (a.md is
\* listed before b.md).
SyncUpdateStopsOnError(m, fs) ==
    [f \in DOMAIN m \cup {g \in DOMAIN fs : fs[g].valid
                                /\ \A e \in DOMAIN fs : fs[e].valid \/ e = "b.md"} |->
        IF ParseOK(fs, f) /\ \A e \in DOMAIN fs : fs[e].valid \/ e = "b.md"
        THEN [content_hash |-> NoteContentHash(fs[f]),
              enriched_at |-> IF GetFileMeta(m, f) THEN m[f].enriched_at
                              ELSE ZeroFileMeta.enriched_at,
              tags |-> fs[f].tags,
              summary |-> fs[f].summary,
              related |-> fs[f].related]
        ELSE m[f]]

\* CmdSync, the loop over the directory's notes (not --dry-run).
SyncUpdate(m, fs) ==
    [f \in DOMAIN m \cup {g \in DOMAIN fs : fs[g].valid} |->
        IF ParseOK(fs, f)
        THEN [content_hash |-> NoteContentHash(fs[f]),
              enriched_at |-> IF GetFileMeta(m, f) THEN m[f].enriched_at
                              ELSE ZeroFileMeta.enriched_at,
              tags |-> fs[f].tags,
              summary |-> fs[f].summary,
              related |-> fs[f].related]
        ELSE m[f]]

\* Variant: every entry whose note does not parse is dropped as well.
SyncRemoveUnparsed(m, fs) ==
    [f \in {g \in DOMAIN m : g \in DOMAIN fs /\ fs[g].valid} |-> m[f]]

\* CmdSync, the removal of entries whose file no longer exists.
SyncRemove(m, fs) ==
    [f \in {g \in DOMAIN m : g \in DOMAIN fs} |-> m[f]]

\* Variant: a synced entry is stamped as enriched (time 1).
CmdSyncStamping(m, fs, force, dryRun) ==
    IF dryRun THEN m
    ELSE LET r == SyncRemove(SyncUpdate(IF force THEN EmptyMap ELSE m, fs), fs)
         IN  [f \in DOMAIN r |->
                IF ParseOK(fs, f) THEN [r[f] EXCEPT !.enriched_at = 1] ELSE r[f]]

\* The index CmdSync leaves in the store.
CmdSyncResult(m, fs, force, dryRun) ==
    LET loaded == IF force THEN EmptyMap ELSE m
    IN  IF dryRun THEN m
        ELSE SyncRemove(SyncUpdate(loaded, fs), fs)

\* The index and the files CmdUpdate leaves behind.
CmdUpdateResult(m, fs, filename, flags, now) ==
    LET note0 == fs[filename]
        prevRelated == IF GetFileMeta(m, filename) THEN m[filename].related
                       ELSE note0.related
        given == flags.related /= NotGiven
        newRelated == IF given THEN flags.related ELSE <<>>
        note == [note0 EXCEPT
                    !.tags = IF flags.tags /= NotGiven THEN flags.tags ELSE @,
                    !.summary = IF flags.summary /= NotGiven THEN flags.summary ELSE @,
                    !.related = IF given THEN newRelated ELSE @]
        fs1 == [fs EXCEPT ![filename] = note]
        m1 == SetFileMeta(m, filename,
                  [content_hash |-> NoteContentHash(note),
                   enriched_at |-> now,
                   tags |-> note.tags,
                   summary |-> note.summary,
                   related |-> note.related])
        dropped == {r \in Ids : given /\ Contains(prevRelated, r)
                                      /\ ~Contains(newRelated, r)}
        added == {r \in Ids : given /\ Contains(newRelated, r)
                                    /\ ~Contains(prevRelated, r)}
        m2 == [x \in DOMAIN m1 |->
                IF x \in dropped
                THEN [m1[x] EXCEPT !.related = RemoveString(@, filename)]
                ELSE IF x \in added /\ ~Contains(m1[x].related, filename)
                THEN [m1[x] EXCEPT !.related = Append(@, filename)]
                ELSE m1[x]]
        fs2 == [x \in DOMAIN fs1 |->
                IF ~fs1[x].valid THEN fs1[x]
                ELSE IF GetFileMeta(m1, x)
                THEN IF \/ x \in dropped
                        \/ x \in added /\ ~Contains(m1[x].related, filename)
                     THEN [fs1[x] EXCEPT !.related = m2[x].related]
                     ELSE fs1[x]
                ELSE IF x \in added /\ ~Contains(fs1[x].related, filename)
                THEN [fs1[x] EXCEPT !.related = Append(@, filename)]
                ELSE fs1[x]]
    IN  [meta |-> m2, files |-> fs2]

\* The filenames CmdDiff prints.
DiffList(m, fs) ==
    {f \in DOMAIN fs : fs[f].valid /\ NeedsEnrichment(m, f, NoteContentHash(fs[f]))}

Init ==
    /\ files = EmptyMap
    /\ meta = EmptyMap
    /\ enrichedBody = [i \in Ids |-> NoBody]
    /\ last = NoOp
    /\ proc = IdleProcs
    /\ trav = IdleTrav
    /\ codec = IdleCodec
    /\ store = IdleStore

\* notes new <content>: a fresh file with an empty header.
CmdNew(f, body) ==
    /\ f \notin DOMAIN files
    /\ files' = [x \in DOMAIN files \cup {f} |->
                    IF x = f THEN NoteFile(body, <<>>, "", <<>>) ELSE files[x]]
    /\ enrichedBody' = [enrichedBody EXCEPT ![f] = NoBody]
    /\ last' = Op("CmdNew", f, "", "", FALSE, meta)
    /\ UNCHANGED <<meta, trav, codec, store, proc>>

\* notes edit <file>: the editor leaves any other content in the file.
CmdEdit(f, content) ==
    /\ f \in DOMAIN files
    /\ content /= files[f]
    /\ files' = [files EXCEPT ![f] = content]
    /\ last' = Op("CmdEdit", f, "", "", FALSE, meta)
    /\ UNCHANGED <<meta, enrichedBody, trav, codec, store, proc>>

\* The note's file is deleted from the directory.
DeleteNote(f) ==
    /\ f \in DOMAIN files
    /\ files' = [x \in DOMAIN files \ {f} |-> files[x]]
    /\ last' = Op("DeleteNote", f, "", "", FALSE, meta)
    /\ UNCHANGED <<meta, enrichedBody, trav, codec, store, proc>>

CmdSync(force, dryRun) ==
    /\ meta' = CmdSyncResult(meta, files, force, dryRun)
    /\ last' = OpSync(force, dryRun, meta)
    /\ UNCHANGED <<files, enrichedBody, trav, codec, store, proc>>

CmdUpdate(f, flags, now) ==
    /\ ParseOK(files, f)
    /\ LET r == CmdUpdateResult(meta, files, f, flags, now)
       IN  /\ meta' = r.meta
           /\ files' = r.files
    /\ enrichedBody' = [enrichedBody EXCEPT ![f] = files[f].body]
    /\ last' = OpUpdate(f, flags, meta, files)
    /\ UNCHANGED <<trav, codec, store, proc>>

CmdDiff ==
    /\ last' = Op("CmdDiff", "", "", "", FALSE, meta)
    /\ UNCHANGED <<files, meta, enrichedBody, trav, codec, store, proc>>

\* LoadMetaFile, UpdateFromNote(ParseNote(f)), Save.
ActUpdateFromNote(f) ==
    /\ ParseOK(files, f)
    /\ meta' = UpdateFromNote(meta, f, files[f])
    /\ last' = Op("UpdateFromNote", f, "", "", FALSE, meta)
    /\ UNCHANGED <<files, enrichedBody, trav, codec, store, proc>>

\* LoadMetaFile, UpdateFromNoteWithEnrichment(ParseNote(f)), Save.
ActUpdateFromNoteWithEnrichment(f, now) ==
    /\ ParseOK(files, f)
    /\ meta' = UpdateFromNoteWithEnrichment(meta, f, files[f], now)
    /\ enrichedBody' = [enrichedBody EXCEPT ![f] = files[f].body]
    /\ last' = Op("UpdateFromNoteWithEnrichment", f, "", "", FALSE, meta)
    /\ UNCHANGED <<files, trav, codec, store, proc>>

Next ==
    \/ \E f \in NoteIds : \E b \in BodiesOf(f) : CmdNew(f, b)
    \/ \E f \in NoteIds : \E c \in FileContents(f) : CmdEdit(f, c)
    \/ \E f \in NoteIds : DeleteNote(f)
    \/ \E force \in BOOLEAN, dryRun \in BOOLEAN : CmdSync(force, dryRun)
    \/ \E f \in NoteIds, fl \in UpdateFlags, now \in 1..MaxTime : CmdUpdate(f, fl, now)
    \/ CmdDiff
    \/ \E f \in NoteIds : ActUpdateFromNote(f)
    \/ \E f \in NoteIds, now \in 1..MaxTime : ActUpdateFromNoteWithEnrichment(f, now)

Spec == Init /\ [][Next]_vars

----------------------------------------------------------------------------
(* SpecUpdate: `notes update <file> --related ...` run on an arbitrary      *)
(* index and notes directory, followed by `notes sync`                     *)

\* Related lists of the notes and entries an update finds, and of --related.
RelLists ==
    {<<>>, <<"a.md">>, <<"b.md">>, <<"a.md", "b.md">>, <<"b.md", "a.md">>,
     <<"b.md", "b.md">>}

\* `notes update` with --related only (parseCSV of "," is the empty list).
RelatedFlag(r) == [tags |-> NotGiven, summary |-> NotGiven, related |-> r]

\* The note files an update may find: missing, undecodable, or with any
\* related list in the header.
DirsForUpdate ==
    UNION {[D -> {BadFile} \cup {NoteFile("\nbeta\n", <<>>, "", r) : r \in RelLists}] :
              D \in SUBSET NoteIds}

IndexesForUpdate ==
    UNION {[D -> {EntrySeed("a.md", r) : r \in RelLists}] : D \in SUBSET NoteIds}

InitUpdate ==
    /\ files \in DirsForUpdate
    /\ meta \in IndexesForUpdate
    /\ enrichedBody = [i \in Ids |-> NoBody]
    /\ last = NoOp
    /\ proc = IdleProcs
    /\ trav = IdleTrav
    /\ codec = IdleCodec
    /\ store = IdleStore

NextUpdate ==
    \/ /\ last.op = "init"
       /\ \E f \in NoteIds, now \in 1..MaxTime :
             \/ \E r \in RelLists : CmdUpdate(f, RelatedFlag(r), now)
             \/ CmdUpdate(f, RelatedFlag(NotGiven), now)
    \/ /\ last.op = "CmdUpdate"
       /\ CmdSync(FALSE, FALSE)

SpecUpdate == InitUpdate /\ [][NextUpdate]_vars

----------------------------------------------------------------------------
(* notes graph <file>: the neighbourhood traversal                         *)
(*                                                                         *)
(* trav.out is the rendering in emission order, one <<level, filename>>    *)
(* per node (JSON) or printed line (text); trav.stack holds one frame per  *)
(* active loop over a related list; trav.expanded lists the filenames      *)
(* whose related list was followed.                                        *)

Frame(rels, d, level) == [rels |-> rels, i |-> 1, d |-> d, level |-> level]

\* Variant: the recursion has no base case.
BuildGraphNeverStops(d, f, visited) == FALSE

\* Variant: the visited set is not consulted.
BuildGraphStopsOnDepthOnly(d, f, visited) == d <= 0

\* buildGraph returns the bare node: depth exhausted or already visited.
BuildGraphStops(d, f, visited) == d <= 0 \/ f \in visited

\* buildGraph(f, d) up to its loop: the node is emitted and, unless the call
\* stops, f is marked and a frame for its related list is pushed.
BuildGraphCall(t, m, f, d, level) ==
    LET t1 == [t EXCEPT !.out = Append(@, <<level, f>>)]
    IN  IF BuildGraphStops(d, f, t.visited) THEN t1
        ELSE LET t2 == [t1 EXCEPT !.visited = @ \cup {f}]
             IN  IF GetFileMeta(m, f)
                 THEN [t2 EXCEPT
                         !.stack = Append(@, Frame(m[f].related, d - 1, level + 1)),
                         !.expanded = Append(@, f)]
                 ELSE t2

\* One iteration of printTree's loop, for the entry rel of a list printed with
\* the given depth at the given level.
PrintTreeEntry(t, m, rel, depth, level) ==
    LET t1 == [t EXCEPT !.out = Append(@, <<level, rel>>)]
    IN  IF depth > 0 /\ rel \notin t.visited
        THEN LET t2 == [t1 EXCEPT !.visited = @ \cup {rel}]
                 unvisited == IF GetFileMeta(m, rel)
                              THEN SelectSeq(m[rel].related,
                                             LAMBDA r : r \notin t2.visited)
                              ELSE <<>>
             IN  IF Len(unvisited) > 0
                 THEN [t2 EXCEPT
                         !.stack = Append(@, Frame(unvisited, depth - 1, level + 1)),
                         !.expanded = Append(@, rel)]
                 ELSE t2
        ELSE t1

\* showNeighborhood up to the first loop.
ShowNeighborhoodStart(m, filename, depth, asJSON) ==
    LET t0 == [IdleTrav EXCEPT !.pc = "run", !.root = filename, !.depth = depth,
                               !.asJSON = asJSON]
    IN  IF asJSON
        THEN BuildGraphCall(t0, m, filename, depth, 0)
        ELSE LET t1 == [t0 EXCEPT !.out = <<<<0, filename>>>>,
                                  !.visited = {filename}]
             IN  IF GetFileMeta(m, filename)
                 THEN [t1 EXCEPT
                         !.stack = <<Frame(m[filename].related, depth - 1, 1)>>,
                         !.expanded = <<filename>>]
                 ELSE t1

\* The next step of the running traversal: the innermost loop ends or handles
\* its next entry; with no loop left the command returns.
TraversalStep(t, m) ==
    IF t.stack = <<>> THEN [t EXCEPT !.pc = "done"]
    ELSE LET n == Len(t.stack)
             top == t.stack[n]
         IN  IF top.i > Len(top.rels)
             THEN [t EXCEPT !.stack = SubSeq(@, 1, n - 1)]
             ELSE LET t1 == [t EXCEPT !.stack[n].i = top.i + 1]
                  IN  IF t.asJSON
                      THEN BuildGraphCall(t1, m, top.rels[top.i], top.d, top.level)
                      ELSE PrintTreeEntry(t1, m, top.rels[top.i], top.d, top.level)

Depths == -1..MaxDepth

\* Three notes related to each other, and the chain a - b - c.
Triangle ==
    [id \in Ids |-> EntrySeed(id, SelectSeq(<<"a.md", "b.md", "c.md">>,
                                            LAMBDA x : x /= id))]

Chain ==
    [id \in Ids |-> EntrySeed(id, IF id = "a.md" THEN <<"b.md">>
                                  ELSE IF id = "b.md" THEN <<"a.md", "c.md">>
                                  ELSE <<"b.md">>)]

\* Two notes related to themselves and to each other; the third has no entry.
SelfCycle ==
    [id \in {"a.md", "b.md"} |->
        EntrySeed(id, IF id = "a.md" THEN <<"a.md", "b.md">> ELSE <<"b.md", "a.md">>)]

GraphFiles == [id \in Ids |-> NoteFile("\nalpha\n", <<>>, "", <<>>)]

InitGraph ==
    /\ meta \in InitIndexes \cup {Triangle, Chain, SelfCycle}
    /\ files = GraphFiles
    /\ enrichedBody = [i \in Ids |-> NoBody]
    /\ last = NoOp
    /\ proc = IdleProcs
    /\ trav = IdleTrav
    /\ codec = IdleCodec
    /\ store = IdleStore

CmdGraph(filename, depth, asJSON) ==
    /\ trav.pc = "idle"
    /\ filename \in DOMAIN files
    /\ trav' = ShowNeighborhoodStart(meta, filename, depth, asJSON)
    /\ UNCHANGED <<files, meta, enrichedBody, last, codec, store, proc>>

GraphStep ==
    /\ trav.pc = "run"
    /\ Len(trav.out) < MaxOut
    /\ trav' = TraversalStep(trav, meta)
    /\ UNCHANGED <<files, meta, enrichedBody, last, codec, store, proc>>

NextGraph ==
    \/ \E f \in Ids, d \in Depths, j \in BOOLEAN : CmdGraph(f, d, j)
    \/ GraphStep

\* A started command runs to completion: the process takes its next step.
SpecGraph == InitGraph /\ [][NextGraph]_vars /\ WF_vars(NextGraph)

----------------------------------------------------------------------------
(* getSharedTags: the tags two index entries share (notes graph, overview) *)

\* Longest tag list of an entry of an initial index.
MaxTags == 2

TagNames == {"go", "Go", "GO", "ai"}
TagIds == {"a.md", "b.md"}

\* Unicode simple case folding of a tag, as strings.EqualFold compares.
Fold(t) == IF t \in {"go", "Go", "GO"} THEN "go" ELSE t

\* Variant: byte-wise comparison.
EqualFoldExact(t1, t2) == t1 = t2

EqualFold(t1, t2) == Fold(t1) = Fold(t2)

\* nil is the empty sequence.
getSharedTags(m, file1, file2) ==
    IF ~GetFileMeta(m, file1) \/ ~GetFileMeta(m, file2) THEN <<>>
    ELSE SelectSeq(m[file1].tags,
                   LAMBDA t1 : \E i \in DOMAIN m[file2].tags :
                                  EqualFold(t1, m[file2].tags[i]))

TagEntry(tags) ==
    [content_hash |-> ContentHash("\nalpha\n"), enriched_at |-> 0,
     tags |-> tags, summary |-> "", related |-> <<>>]

InitTags ==
    /\ \E D \in SUBSET TagIds :
          \E tg \in [D -> SeqsUpTo(TagNames, MaxTags)] :
             meta = [id \in D |-> TagEntry(tg[id])]
    /\ files = EmptyMap
    /\ enrichedBody = [i \in Ids |-> NoBody]
    /\ last = NoOp
    /\ proc = IdleProcs
    /\ trav = IdleTrav
    /\ codec = IdleCodec
    /\ store = IdleStore

ActGetSharedTags(file1, file2) ==
    /\ last' = Op("getSharedTags", file1, file2, "",
                  getSharedTags(meta, file1, file2), meta)
    /\ UNCHANGED <<files, meta, enrichedBody, trav, codec, store, proc>>

NextTags == \E file1 \in TagIds, file2 \in TagIds : ActGetSharedTags(file1, file2)

SpecTags == InitTags /\ [][NextTags]_vars

----------------------------------------------------------------------------
(* The note codec: Note.ToMarkdown and ParseNoteContent                    *)
(*                                                                         *)
(* A text is a sequence of tokens.  <<"---">> is the three dashes, <<"\n">> *)
(* a line break, <<"x">> a word of body text, <<"tags: [">> a header line  *)
(* YAML cannot decode, and <<key, value>> the header line `key: value`,    *)
(* its value held as YAML reads it.  The byte patterns "---\n", "\n---\n"  *)
(* and "\n---" of the source are the token patterns below, because no      *)
(* other token holds a dash or a line break.                               *)

\* Largest number of lines of a raw input text.
MaxLines == 4

Marker == <<"---">>
NL == <<"\n">>
Word == <<"x">>
BadLine == <<"tags: [">>

\* The text of a time is <<layout, n>>: under noteTimeFormat n counts the
\* minutes, under RFC3339 the seconds.
noteTimeFormat == "2006-01-02 15:04"
RFC3339 == "2006-01-02T15:04:05Z07:00"

\* t.Format(noteTimeFormat): the text names the minute of t.
FormatNoteTime(t) == <<noteTimeFormat, t \div 60>>

\* NoteTime.UnmarshalYAML: noteTimeFormat is tried first, then RFC3339.
ParseNoteTime(value) ==
    IF value[1] = noteTimeFormat THEN value[2] * 60 ELSE value[2]

\* The scalars YAML reads from an item written bare into a flow sequence.
FlowScalars(item) == IF item = "a, b" THEN <<"a", "b">> ELSE <<item>>

\* The items joined by ", " between brackets, as YAML reads the result.
RECURSIVE FlowText(_)
FlowText(items) ==
    IF items = <<>> THEN <<>>
    ELSE FlowScalars(Head(items)) \o FlowText(Tail(items))

\* fmt.Sprintf("%q", s); the empty summary is written as "" too.
Quote(s) == <<"\"", s, "\"">>

\* The string a YAML double-quoted scalar stands for.
Unquote(q) == q[2]

\* Variant: a blank line separates the header from the body.
ToMarkdownBlankLine(n) ==
    <<Marker, NL,
      <<"created", FormatNoteTime(n.created)>>, NL,
      <<"tags", FlowText(n.tags)>>, NL,
      <<"summary", Quote(n.summary)>>, NL,
      <<"related", FlowText(n.related)>>, NL,
      Marker, NL, NL>> \o n.body

ToMarkdown(n) ==
    <<Marker, NL,
      <<"created", FormatNoteTime(n.created)>>, NL,
      <<"tags", FlowText(n.tags)>>, NL,
      <<"summary", Quote(n.summary)>>, NL,
      <<"related", FlowText(n.related)>>, NL,
      Marker, NL>> \o n.body

HasPrefix(s, prefix) ==
    Len(s) >= Len(prefix) /\ SubSeq(s, 1, Len(prefix)) = prefix

HasSuffix(s, suffix) ==
    Len(s) >= Len(suffix) /\ SubSeq(s, Len(s) - Len(suffix) + 1, Len(s)) = suffix

\* strings.Index: offset of the first occurrence of sub in s, -1 if none.
Index(s, sub) ==
    LET at == {i \in 0..(Len(s) - Len(sub)) : SubSeq(s, i + 1, i + Len(sub)) = sub}
    IN  IF at = {} THEN -1 ELSE CHOOSE i \in at : \A j \in at : i <= j

\* The lines of a text: the token runs between line breaks.
RECURSIVE SplitLines(_)
SplitLines(s) ==
    LET i == Index(s, <<NL>>)
    IN  IF i = -1 THEN <<s>>
        ELSE <<SubSeq(s, 1, i)>> \o SplitLines(SubSeq(s, i + 2, Len(s)))

RECURSIVE JoinLines(_)
JoinLines(ls) ==
    IF ls = <<>> THEN <<>>
    ELSE IF Len(ls) = 1 THEN ls[1]
    ELSE ls[1] \o <<NL>> \o JoinLines(Tail(ls))

\* yaml.Unmarshal of the header text into a Frontmatter.  Blank lines and a
\* leading document marker carry no content; every other line has to be one
\* `key: value` line, each key at most once.
YamlUnmarshal(fmContent) ==
    LET ls == SplitLines(fmContent)
        content == {i \in DOMAIN ls : ls[i] /= <<>> /\ ~(i = 1 /\ ls[i] = <<Marker>>)}
        isField(i) == Len(ls[i]) = 1 /\ Len(ls[i][1]) = 2
        key(i) == ls[i][1][1]
        val(i) == ls[i][1][2]
        ok == /\ \A i \in content : isField(i)
              /\ \A i \in content, j \in content : key(i) = key(j) => i = j
        has(k) == \E i \in content : key(i) = k
        get(k) == val(CHOOSE i \in content : key(i) = k)
    IN  IF ~ok THEN [err |-> TRUE, fm |-> ZeroNote]
        ELSE [err |-> FALSE,
              fm |-> [created |-> IF has("created") THEN ParseNoteTime(get("created")) ELSE 0,
                      tags |-> IF has("tags") THEN get("tags") ELSE <<>>,
                      summary |-> IF has("summary") THEN Unquote(get("summary")) ELSE "",
                      related |-> IF has("related") THEN get("related") ELSE <<>>,
                      body |-> <<>>]]

\* The result of ParseNoteContent: err, or the note with its Content as body.
ParseNoteContent(content) ==
    LET plain == [err |-> FALSE, note |-> [ZeroNote EXCEPT !.body = content]]
    IN  IF ~HasPrefix(content, <<Marker, NL>>) THEN plain
        ELSE
          LET rest == SubSeq(content, 3, Len(content))
              found == Index(rest, <<NL, Marker, NL>>)
              atEnd == HasSuffix(rest, <<NL, Marker>>)
              idx == IF found /= -1 THEN found ELSE Len(rest) - 2
          IN  IF found = -1 /\ ~atEnd THEN plain
              ELSE
                LET fmContent == SubSeq(rest, 1, idx)
                    body == IF idx + 3 < Len(rest)
                            THEN SubSeq(rest, idx + 4, Len(rest)) ELSE <<>>
                    y == YamlUnmarshal(fmContent)
                IN  IF y.err THEN [err |-> TRUE, note |-> ZeroNote]
                    ELSE [err |-> FALSE, note |-> [y.fm EXCEPT !.body = body]]

SummaryLine == <<"summary", Quote("s")>>

\* `created:` lines as `notes new` writes them and as written by hand with
\* seconds.
CreatedLines == {<<"created", <<noteTimeFormat, 1>>>>, <<"created", <<RFC3339, 61>>>>}

LineSet ==
    {<<>>, <<Marker>>, <<SummaryLine>>, <<BadLine>>, <<Word>>}
        \cup {<<c>> : c \in CreatedLines}

\* Input texts: up to MaxLines lines, with or without a final line break.
RawTexts ==
    {JoinLines(ls) \o tail :
        ls \in SeqsUpTo(LineSet, MaxLines) \ {<<>>}, tail \in {<<>>, <<NL>>}}

NoteBodies == {<<>>, <<NL, Word, NL>>, <<Marker, NL, Word>>}

\* Note records: 61 is a creation time with seconds, "a, b" a tag with a comma.
NoteRecords ==
    [created : {0, 60, 61}, tags : SeqsUpTo({"go", "a, b"}, MaxTags),
     summary : {"", "s"}, related : SeqsUpTo({"a.md"}, 1), body : NoteBodies]

InitCodec ==
    /\ \/ \E n \in NoteRecords :
             codec = [IdleCodec EXCEPT !.pc = "note", !.from = "note", !.note = n]
       \/ \E t \in RawTexts :
             codec = [IdleCodec EXCEPT !.pc = "text", !.from = "text", !.text = t]
    /\ files = EmptyMap
    /\ meta = EmptyMap
    /\ enrichedBody = [i \in Ids |-> NoBody]
    /\ last = NoOp
    /\ proc = IdleProcs
    /\ trav = IdleTrav
    /\ store = IdleStore

\* Note.Save up to the write: the note is rendered.
ActToMarkdown ==
    /\ codec.pc = "note"
    /\ codec' = [codec EXCEPT !.pc = "text", !.text = ToMarkdown(codec.note)]
    /\ UNCHANGED <<files, meta, enrichedBody, last, trav, store, proc>>

\* ParseNote: the text is read back.
ActParseNoteContent ==
    /\ codec.pc \in {"text", "rewritten"}
    /\ LET r == ParseNoteContent(codec.text)
       IN  codec' = [codec EXCEPT !.pc = IF codec.pc = "text" THEN "parsed" ELSE "reparsed",
                                  !.err = r.err, !.parsed = r.note]
    /\ UNCHANGED <<files, meta, enrichedBody, last, trav, store, proc>>

\* updateRelatedInFile up to the write: the note that was parsed gets the
\* related list handed in.
updateRelatedInFile(note, related) == [note EXCEPT !.related = related]

\* CmdUpdate up to the write of the note: the flags given replace the fields.
ApplyFlags(note, flags) ==
    [note EXCEPT
        !.tags = IF flags.tags /= NotGiven THEN flags.tags ELSE @,
        !.summary = IF flags.summary /= NotGiven THEN flags.summary ELSE @,
        !.related = IF flags.related /= NotGiven THEN flags.related ELSE @]

\* n.ContentHash() of a body given as text: sha256 is taken to be free of
\* collisions, so the fingerprint stands for the bytes it was computed from.
TextContentHash(body) == <<"sha256", body>>

\* A note file is rewritten by update: the parsed note, its header changed,
\* is rendered over the file.  codec.note keeps what ParseNote returned and
\* codec.hash the fingerprint computed from the note that was written.
ActRewrite ==
    /\ codec.pc = "parsed" /\ codec.from = "text" /\ ~codec.err
    /\ \E n \in {updateRelatedInFile(codec.parsed, r) : r \in SeqsUpTo({"a.md"}, 1)}
                \cup {ApplyFlags(codec.parsed, fl) : fl \in UpdateFlags} :
          codec' = [codec EXCEPT !.pc = "rewritten", !.note = codec.parsed,
                                 !.text = ToMarkdown(n),
                                 !.hash = TextContentHash(n.body)]
    /\ UNCHANGED <<files, meta, enrichedBody, last, trav, store, proc>>

NextCodec == ActToMarkdown \/ ActParseNoteContent \/ ActRewrite

SpecCodec == InitCodec /\ [][NextCodec]_vars

----------------------------------------------------------------------------
(* The metadata store on disk: LoadMetaFile, MetaFile.Save, and the        *)
(* commands run against the file                                           *)
(*                                                                         *)
(* store.exists and store.data are .meta.json: a sequence of tokens, <<"{">> *)
(* and <<"}">> around one <<filename, fields>> token per entry.  store.pc  *)
(* is the position of the command that is writing the file, store.buf the  *)
(* document it writes and store.prior the file as Save found it.  In this  *)
(* specification meta is the index the last command held in memory.        *)

LBrace == <<"{">>
RBrace == <<"}">>
Garbage == <<"not json">>

\* encoding/json writes the keys of a map in sorted order.
SortedIds == <<"a.md", "b.md", "c.md">>

\* time.Time.MarshalJSON writes the instant in RFC 3339 with nanoseconds; the
\* zero time is written too, omitempty does not apply to a struct.
EncodeTime(t) == <<"RFC3339Nano", t>>

\* time.Time.UnmarshalJSON
DecodeTime(x) == x[2]

EncodeEntry(e) ==
    <<e.content_hash, EncodeTime(e.enriched_at), e.tags, e.summary, e.related>>

\* Variant: an entry read from the store counts as enriched when it is read.
DecodeEntryStamped(t) ==
    [content_hash |-> t[1], enriched_at |-> MaxTime, tags |-> t[3],
     summary |-> t[4], related |-> t[5]]

DecodeEntry(t) ==
    [content_hash |-> t[1], enriched_at |-> DecodeTime(t[2]), tags |-> t[3],
     summary |-> t[4], related |-> t[5]]

\* json.MarshalIndent(m, "", "  ")
JsonMarshal(m) ==
    LET keys == SelectSeq(SortedIds, LAMBDA id : id \in DOMAIN m)
    IN  <<LBrace>> \o [i \in 1..Len(keys) |-> <<keys[i], EncodeEntry(m[keys[i]])>>]
                   \o <<RBrace>>

\* json.Unmarshal(data, &meta): an error unless data is a complete document.
JsonUnmarshal(data) ==
    LET n == Len(data)
        ok == /\ n >= 2
              /\ data[1] = LBrace
              /\ data[n] = RBrace
              /\ \A i \in 2..(n - 1) : Len(data[i]) = 2
    IN  IF ~ok THEN [err |-> TRUE, files |-> EmptyMap]
        ELSE [err |-> FALSE,
              files |-> [id \in {data[i][1] : i \in 2..(n - 1)} |->
                            DecodeEntry(data[CHOOSE i \in 2..(n - 1) :
                                                 data[i][1] = id][2])]]

\* The file as a value: whether it exists, and its content.
DiskOf(st) == [exists |-> st.exists, data |-> st.data]

\* Variant: a missing store is an error.
LoadMetaFileStrict(st) ==
    IF ~st.exists THEN [err |-> TRUE, files |-> EmptyMap]
    ELSE JsonUnmarshal(st.data)

\* Variant: an undecodable store is read as an empty index.
LoadMetaFileLenient(st) ==
    IF ~st.exists \/ JsonUnmarshal(st.data).err
    THEN [err |-> FALSE, files |-> EmptyMap]
    ELSE JsonUnmarshal(st.data)

LoadMetaFile(st) ==
    IF ~st.exists THEN [err |-> FALSE, files |-> EmptyMap]
    ELSE JsonUnmarshal(st.data)

\* The record of a command run against the store: res is "the command
\* failed", pre and preFiles are the store and the notes it found.
OpStore(op, a, failed, force, dryRun, pre, preFiles) ==
    [op |-> op, a |-> a, b |-> "", h |-> "", res |-> failed, pre |-> pre,
     force |-> force, dryRun |-> dryRun, preFiles |-> preFiles]

\* m.Save(notesDir) is called: the document is marshalled.
SaveCall(st, m) ==
    [st EXCEPT !.pc = "open", !.buf = JsonMarshal(m), !.prior = DiskOf(st)]

StoreFiles ==
    [f \in NoteIds |->
        IF f = "a.md" THEN NoteFile("\nalpha\n", <<>>, "", <<>>)
        ELSE NoteFile("\nbeta\n", <<"go">>, "s", <<>>)]

\* The stores a command may find: none, documents of earlier saves, a file
\* that is not JSON, and an empty file.
InitialDisks ==
    {[exists |-> FALSE, data |-> <<>>],
     [exists |-> TRUE, data |-> <<Garbage>>],
     [exists |-> TRUE, data |-> <<>>],
     [exists |-> TRUE, data |-> JsonMarshal(EmptyMap)],
     [exists |-> TRUE, data |-> JsonMarshal(CmdSyncResult(EmptyMap, StoreFiles, TRUE, FALSE))]}

\* The directories a command may find: both notes, or b.md deleted since
\* the store was written.
StoreDirs == {StoreFiles, [f \in {"a.md"} |-> StoreFiles[f]]}

InitStore ==
    /\ \E d \in InitialDisks :
          store = [IdleStore EXCEPT !.exists = d.exists, !.data = d.data, !.prior = d]
    /\ files \in StoreDirs
    /\ meta = EmptyMap
    /\ enrichedBody = [i \in Ids |-> NoBody]
    /\ last = NoOp
    /\ proc = IdleProcs
    /\ trav = IdleTrav
    /\ codec = IdleCodec

ActLoadMetaFile ==
    /\ store.pc = "idle"
    /\ LET r == LoadMetaFile(store)
       IN  /\ meta' = IF r.err THEN meta ELSE r.files
           /\ last' = OpStore("LoadMetaFile", "", r.err, FALSE, FALSE,
                              DiskOf(store), files)
    /\ UNCHANGED <<files, enrichedBody, trav, codec, store, proc>>

\* Variant: the store is saved under --dry-run too.
SyncSavesAlways(dryRun) == TRUE

\* CmdSync saves the store unless --dry-run is given.
SyncSaves(dryRun) == ~dryRun

\* notes sync, up to the call of Save.
StoreCmdSync(force, dryRun) ==
    /\ store.pc = "idle"
    /\ LET r == IF force THEN [err |-> FALSE, files |-> EmptyMap]
                ELSE LoadMetaFile(store)
           m2 == IF dryRun THEN r.files
                 ELSE CmdSyncResult(r.files, files, force, FALSE)
       IN  /\ last' = OpStore("CmdSync", "", r.err, force, dryRun, DiskOf(store), files)
           /\ IF r.err THEN UNCHANGED <<meta, store>>
              ELSE /\ meta' = m2
                   /\ store' = IF SyncSaves(dryRun) THEN SaveCall(store, m2) ELSE store
    /\ UNCHANGED <<files, enrichedBody, trav, codec, proc>>

\* notes update <file>, up to the call of meta.Save: the note files are
\* written before the index is saved.
StoreCmdUpdate(f, flags, now) ==
    /\ store.pc = "idle"
    /\ ParseOK(files, f)
    /\ LET r == LoadMetaFile(store)
           u == CmdUpdateResult(r.files, files, f, flags, now)
       IN  /\ last' = OpStore("CmdUpdate", f, r.err, FALSE, FALSE, DiskOf(store), files)
           /\ IF r.err THEN UNCHANGED <<meta, store, files>>
              ELSE /\ meta' = u.meta
                   /\ files' = u.files
                   /\ store' = SaveCall(store, u.meta)
    /\ UNCHANGED <<enrichedBody, trav, codec, proc>>

\* The commands that only read the index.
ReadCommands == {"CmdDiff", "CmdGraph", "CmdMeta", "CmdEnrich"}

StoreCmdRead(cmd) ==
    /\ store.pc = "idle"
    /\ LET r == LoadMetaFile(store)
       IN  /\ meta' = IF r.err THEN meta ELSE r.files
           /\ last' = OpStore(cmd, "", r.err, FALSE, FALSE, DiskOf(store), files)
    /\ UNCHANGED <<files, enrichedBody, trav, codec, store, proc>>

\* os.WriteFile opens the file with O_CREATE|O_TRUNC.
SaveOpen ==
    /\ store.pc = "open"
    /\ store' = [store EXCEPT !.pc = "write", !.exists = TRUE, !.data = <<>>]
    /\ UNCHANGED <<files, meta, enrichedBody, last, trav, codec, proc>>

\* The document reaches the file piece by piece.
SaveWrite ==
    /\ store.pc = "write"
    /\ Len(store.data) < Len(store.buf)
    /\ store' = [store EXCEPT !.data = Append(@, store.buf[Len(store.data) + 1])]
    /\ UNCHANGED <<files, meta, enrichedBody, last, trav, codec, proc>>

\* The file is closed and the command returns.
SaveClose ==
    /\ store.pc = "write"
    /\ store.data = store.buf
    /\ store' = [store EXCEPT !.pc = "idle"]
    /\ UNCHANGED <<files, meta, enrichedBody, trav, codec, proc>>
    /\ last' = [last EXCEPT !.op = "Save"]

\* The write fails or the process stops while Save is running.
SaveInterrupted ==
    /\ store.pc \in {"open", "write"}
    /\ store' = [store EXCEPT !.pc = "idle"]
    /\ last' = [last EXCEPT !.op = "SaveInterrupted"]
    /\ UNCHANGED <<files, meta, enrichedBody, trav, codec, proc>>

NextStore ==
    \/ ActLoadMetaFile
    \/ \E force \in BOOLEAN, dryRun \in BOOLEAN : StoreCmdSync(force, dryRun)
    \/ \E f \in NoteIds, fl \in UpdateFlags, now \in 1..MaxTime : StoreCmdUpdate(f, fl, now)
    \/ \E cmd \in ReadCommands : StoreCmdRead(cmd)
    \/ SaveOpen
    \/ SaveWrite
    \/ SaveClose
    \/ SaveInterrupted

SpecStore == InitStore /\ [][NextStore]_vars

----------------------------------------------------------------------------
(* Save followed by LoadMetaFile, for every index                          *)

InitRoundTrip ==
    /\ meta \in InitIndexes
    /\ \E d \in InitialDisks :
          store = [IdleStore EXCEPT !.exists = d.exists, !.data = d.data, !.prior = d]
    /\ files = EmptyMap
    /\ enrichedBody = [i \in Ids |-> NoBody]
    /\ last = NoOp
    /\ proc = IdleProcs
    /\ trav = IdleTrav
    /\ codec = IdleCodec

\* m.Save(notesDir) is called on the index in memory; last.pre keeps it.
ActSave ==
    /\ store.pc = "idle" /\ last.op = "init"
    /\ store' = SaveCall(store, meta)
    /\ last' = Op("SaveCall", "", "", "", FALSE, meta)
    /\ UNCHANGED <<files, meta, enrichedBody, trav, codec, proc>>

\* LoadMetaFile(notesDir) after the save has returned.
ActLoadSaved ==
    /\ store.pc = "idle" /\ last.op = "Save"
    /\ LET r == LoadMetaFile(store)
       IN  /\ meta' = IF r.err THEN EmptyMap ELSE r.files
           /\ last' = [last EXCEPT !.op = "LoadSaved", !.res = r.err]
    /\ UNCHANGED <<files, enrichedBody, trav, codec, store, proc>>

NextRoundTrip == ActSave \/ SaveOpen \/ SaveWrite \/ SaveClose \/ ActLoadSaved

SpecRoundTrip == InitRoundTrip /\ [][NextRoundTrip]_vars

----------------------------------------------------------------------------
(* Two invocations of `notes update` at once                               *)
(*                                                                         *)
(* Invocation 1 updates a.md and invocation 2 updates b.md.  Each reads    *)
(* .meta.json once, in LoadMetaFile, and writes it once, in Save; the two  *)
(* writes are taken one after the other.  proc.log lists the reads and     *)
(* writes in the order they happened.                                      *)

Target(p) == IF p = 1 THEN "a.md" ELSE "b.md"

\* Variant: the document is appended to the file instead of replacing it.
WriteFileAppend(st, data) == [st EXCEPT !.exists = TRUE, !.data = @ \o data]

\* os.WriteFile(metaPath, data, 0644): the file holds data afterwards.
WriteFile(st, data) == [st EXCEPT !.exists = TRUE, !.data = data]

InitRace ==
    /\ \E d \in InitialDisks :
          store = [IdleStore EXCEPT !.exists = d.exists, !.data = d.data, !.prior = d]
    /\ files = StoreFiles
    /\ meta = EmptyMap
    /\ enrichedBody = [i \in Ids |-> NoBody]
    /\ last = Op("init", "", "", "", FALSE, DiskOf(store))
    /\ trav = IdleTrav
    /\ codec = IdleCodec
    /\ proc = IdleProcs

\* CmdUpdate of invocation p up to LoadMetaFile: the store is read whole.
RaceLoad(p) ==
    /\ proc.pc[p] = "start"
    /\ LET r == LoadMetaFile(store)
       IN  proc' = [proc EXCEPT
                       !.pc[p] = IF r.err THEN "failed" ELSE "loaded",
                       !.mem[p] = r.files,
                       !.log = Append(@, <<"load", p>>)]
    /\ UNCHANGED <<files, meta, enrichedBody, last, trav, codec, store>>

\* CmdUpdate of invocation p from the flags to the entry: the note file is
\* written and the entry is changed in the index in memory.
RaceChange(p, flags, now) ==
    /\ proc.pc[p] = "loaded"
    /\ LET u == CmdUpdateResult(proc.mem[p], files, Target(p), flags, now)
       IN  /\ files' = u.files
           /\ proc' = [proc EXCEPT !.pc[p] = "changed", !.mem[p] = u.meta]
    /\ UNCHANGED <<meta, enrichedBody, last, trav, codec, store>>

\* meta.Save(notesDir) of invocation p: the index in memory is written.
RaceSave(p) ==
    /\ proc.pc[p] = "changed"
    /\ store' = WriteFile(store, JsonMarshal(proc.mem[p]))
    /\ proc' = [proc EXCEPT !.pc[p] = "saved", !.log = Append(@, <<"save", p>>)]
    /\ UNCHANGED <<files, meta, enrichedBody, last, trav, codec>>

NextRace ==
    \/ \E p \in Procs : RaceLoad(p)
    \/ \E p \in Procs, fl \in UpdateFlags, now \in 1..MaxTime : RaceChange(p, fl, now)
    \/ \E p \in Procs : RaceSave(p)

SpecRace == InitRace /\ [][NextRace]_vars

----------------------------------------------------------------------------
(* notes new: generateFilename                                             *)
(*                                                                         *)
(* A filename is <<minute, i>>: the minute now.Format("2006-01-02-1504")   *)
(* names, and the suffix i, 0 for the name without suffix.  Names of       *)
(* different minutes or suffixes are different strings.                    *)

\* The loop over the suffixes runs while i < 100.
SuffixLimit == 100

\* The minutes in which `notes new` is run.
NewMinutes == {0, 1}

\* Variant: the name of the minute is returned without a look at the directory.
generateFilenameUnchecked(dir, now) == [err |-> FALSE, filename |-> <<now, 0>>]

\* generateFilename with the names in the directory and time.Now().
generateFilename(dir, now) ==
    LET free == {i \in 1..(SuffixLimit - 1) : <<now, i>> \notin dir}
    IN  IF <<now, 0>> \notin dir THEN [err |-> FALSE, filename |-> <<now, 0>>]
        ELSE IF free = {} THEN [err |-> TRUE, filename |-> <<>>]
        ELSE [err |-> FALSE,
              filename |-> <<now, CHOOSE i \in free : \A j \in free : i <= j>>]

\* notes new <content> run in minute now; last.b keeps the minute and
\* last.pre the directory.
CmdNewAt(now) ==
    /\ LET r == generateFilename(DOMAIN files, now)
       IN  /\ files' = IF r.err THEN files
                       ELSE [x \in DOMAIN files \cup {r.filename} |->
                               IF x = r.filename
                               THEN NoteFile("\nbeta\n", <<>>, "", <<>>)
                               ELSE files[x]]
           /\ last' = Op("CmdNewAt", r.filename, now, "", r.err, files)
    /\ UNCHANGED <<meta, enrichedBody, trav, codec, store, proc>>

\* The directory after a burst of `notes new` in minute 1 that left two of
\* its names free.
BurstDir ==
    [x \in {<<1, i>> : i \in 0..(SuffixLimit - 3)} |->
        NoteFile("\nalpha\n", <<>>, "", <<>>)]

\* The same with two notes of minute 0 written by hand.
SeedDir ==
    [x \in DOMAIN BurstDir \cup {<<0, 0>>, <<0, 2>>} |->
        NoteFile("\nalpha\n", <<>>, "", <<>>)]

\* The notes that are deleted again.
Deletable == {<<0, 0>>, <<0, 1>>}

InitNew ==
    /\ files \in {BurstDir, SeedDir}
    /\ meta = EmptyMap
    /\ enrichedBody = [i \in Ids |-> NoBody]
    /\ last = NoOp
    /\ proc = IdleProcs
    /\ trav = IdleTrav
    /\ codec = IdleCodec
    /\ store = IdleStore

NextNew ==
    \/ \E now \in NewMinutes : CmdNewAt(now)
    \/ \E f \in Deletable : DeleteNote(f)

SpecNew == InitNew /\ [][NextNew]_vars

----------------------------------------------------------------------------
(* Vocabulary of the properties                                            *)

Elems(s) == {s[i] : i \in DOMAIN s}

Occurrences(s, x) == Cardinality({i \in DOMAIN s : s[i] = x})

Has(m, id) == id \in DOMAIN m

\* Field values an entry could carry instead of its own.
OtherTags == {<<>>, <<"go">>, <<"x", "y">>}
OtherSummaries == {"", "s", "another"}
OtherRelated == SeqsUpTo(Ids, 1)

----------------------------------------------------------------------------
(* Properties of the index operations (SpecIndex, SpecSym)                 *)

\* C1: needs_enrichment(id, h) is true exactly when the index has no entry for
\* id or the entry's stored fingerprint differs from h; the answer is the same
\* whatever the entry's tags, summary, related and enriched_at are.
C1_NeedsEnrichmentExact ==
    last.op = "NeedsEnrichment" =>
        /\ last.res = (~Has(meta, last.a) \/ meta[last.a].content_hash /= last.h)
        /\ Has(meta, last.a) =>
             \A tg \in OtherTags, su \in OtherSummaries,
                r \in OtherRelated, t \in 0..MaxTime :
                NeedsEnrichment(
                    [meta EXCEPT ![last.a] =
                        [content_hash |-> meta[last.a].content_hash,
                         enriched_at |-> t, tags |-> tg, summary |-> su,
                         related |-> r]],
                    last.a, last.h) = last.res

C1_Witness ==
    /\ last.op = "NeedsEnrichment"
    /\ Has(meta, last.a)
    /\ meta[last.a].content_hash = last.h
    /\ meta[last.a].enriched_at = 0
    /\ last.res = FALSE

\* C3: after add_relation(a, b) on an index in which both a and b have entries,
\* b is in a's related list and a is in b's related list.
C3_AddRelationSymmetric ==
    (last.op = "AddRelation" /\ Has(last.pre, last.a) /\ Has(last.pre, last.b)) =>
        /\ last.b \in Elems(meta[last.a].related)
        /\ last.a \in Elems(meta[last.b].related)

C3_Witness ==
    /\ last.op = "AddRelation"
    /\ last.a /= last.b
    /\ Has(last.pre, last.a) /\ Has(last.pre, last.b)
    /\ last.b \notin Elems(last.pre[last.a].related)
    /\ last.a \notin Elems(last.pre[last.b].related)
    /\ last.b \in Elems(meta[last.a].related)

\* C4: after remove_relation(a, b), b does not occur in a's related list and a
\* does not occur in b's, also when a list held the identifier several times;
\* a list that did not hold the identifier keeps its elements and their order.
C4_RemoveRelationComplete ==
    last.op = "RemoveRelation" =>
        /\ Has(meta, last.a) =>
             /\ last.b \notin Elems(meta[last.a].related)
             /\ last.b \notin Elems(last.pre[last.a].related)
                    => meta[last.a].related = last.pre[last.a].related
        /\ Has(meta, last.b) =>
             /\ last.a \notin Elems(meta[last.b].related)
             /\ last.a \notin Elems(last.pre[last.b].related)
                    => meta[last.b].related = last.pre[last.b].related

C4_Witness ==
    /\ last.op = "RemoveRelation"
    /\ Has(last.pre, last.a)
    /\ Occurrences(last.pre[last.a].related, last.b) >= 2
    /\ last.b \notin Elems(meta[last.a].related)

\* C5: from an index whose related lists are all empty, after any sequence of
\* add_relation and remove_relation calls, for identifiers A and B that both
\* have entries, B is in A's related list iff A is in B's related list.
C5_RelationalSymmetry ==
    \A A \in DOMAIN meta, B \in DOMAIN meta :
        (B \in Elems(meta[A].related)) <=> (A \in Elems(meta[B].related))

C5_Witness ==
    /\ last.op = "RemoveRelation"
    /\ Has(meta, last.a) /\ Has(meta, last.b) /\ last.a /= last.b
    /\ last.b \in Elems(last.pre[last.a].related)
    /\ \E C \in DOMAIN meta : C /= last.b /\ C \in Elems(meta[last.a].related)

\* C6: add_relation deduplicates: a list that already holds the identifier is
\* left unchanged, a second add_relation(a, b) changes nothing, and no
\* identifier that occurred at most once in a list occurs more than once after.
C6_AddRelationDedup ==
    last.op = "AddRelation" =>
        /\ \A x \in DOMAIN meta :
             /\ (x = last.a /\ last.b \in Elems(last.pre[x].related))
                    => meta[x].related = last.pre[x].related
             /\ (x = last.b /\ last.a \in Elems(last.pre[x].related))
                    => meta[x].related = last.pre[x].related
             /\ \A y \in Ids :
                    Occurrences(last.pre[x].related, y) <= 1
                        => Occurrences(meta[x].related, y) <= 1
        /\ AddRelation(meta, last.a, last.b) = meta

C6_Witness ==
    /\ last.op = "AddRelation"
    /\ Has(meta, last.a) /\ Has(meta, last.b) /\ last.a /= last.b
    /\ Len(last.pre[last.a].related) >= 2
    /\ last.pre[last.a].related[2] = last.b
    /\ meta = last.pre

\* C7: add_relation and remove_relation create and delete no entry; a side
\* without an entry is skipped; entries other than a and b, and the
\* fingerprint, tags, summary and enriched_at of a and b, are unchanged.
C7_RelationFrame ==
    last.op \in {"AddRelation", "RemoveRelation"} =>
        /\ DOMAIN meta = DOMAIN last.pre
        /\ \A x \in DOMAIN meta :
             /\ x \notin {last.a, last.b} => meta[x] = last.pre[x]
             /\ meta[x].content_hash = last.pre[x].content_hash
             /\ meta[x].tags = last.pre[x].tags
             /\ meta[x].summary = last.pre[x].summary
             /\ meta[x].enriched_at = last.pre[x].enriched_at

C7_Witness ==
    /\ last.op = "AddRelation"
    /\ Has(last.pre, last.a) /\ ~Has(last.pre, last.b)
    /\ meta[last.a].related = Append(last.pre[last.a].related, last.b)
    /\ \E x \in DOMAIN meta : x /= last.a /\ meta[x].related /= <<>>

----------------------------------------------------------------------------
(* Properties of the commands (Spec)                                       *)

\* The index a sync works on: an empty one under --force, else the stored one.
SyncLoaded == IF last.force THEN EmptyMap ELSE last.pre

\* C2: after any sequence of body edits, header edits, sync runs and update
\* runs, every note whose current body differs from the body it had when it
\* was last enriched (or that was never enriched) is listed by diff.
C2_StaleNotesListed ==
    last.op = "CmdDiff" =>
        \A f \in DOMAIN files :
            (files[f].valid /\ enrichedBody[f] /= files[f].body)
                => f \in DiffList(meta, files)

\* C8: the removal step of a non-dry-run sync removes exactly the entries whose
\* identifiers are absent from the directory's notes and no entry whose
\* identifier is among them; afterwards no entry is left for a deleted file.
C8_ReconcileExact ==
    (last.op = "CmdSync" /\ ~last.dryRun) =>
        /\ DOMAIN meta =
             (DOMAIN SyncLoaded \cup {f \in DOMAIN files : files[f].valid})
                \cap DOMAIN files
        /\ \A f \in DOMAIN SyncLoaded \cap DOMAIN files :
             ~files[f].valid => meta[f] = SyncLoaded[f]
        /\ DOMAIN meta \subseteq DOMAIN files

C8_Witness ==
    /\ last.op = "CmdSync" /\ ~last.dryRun /\ ~last.force
    /\ \E f \in DOMAIN last.pre : f \notin DOMAIN files /\ f \notin DOMAIN meta
    /\ \E g \in DOMAIN last.pre : g \in DOMAIN files /\ ~files[g].valid
                                  /\ g \in DOMAIN meta

\* C9 as stated: update_from_record and every sync leave the enriched_at of
\* every existing entry unchanged, and an entry they create has none.
C9_SyncKeepsEnrichedAt ==
    (last.op \in {"CmdSync", "UpdateFromNote"}) =>
        \A f \in DOMAIN meta :
            meta[f].enriched_at =
                IF f \in DOMAIN last.pre THEN last.pre[f].enriched_at ELSE 0

\* C9 amended: update_from_record and a sync without --force set fingerprint,
\* tags, summary and related from the note and leave the enriched_at of every
\* existing entry unchanged, an entry they create has none; a sync --force
\* writes every entry without enriched_at; only the mark_enriched variant and
\* update stamp an enriched_at.
C9_PlainSyncKeepsEnrichedAt ==
    /\ (last.op = "UpdateFromNote" \/ (last.op = "CmdSync" /\ ~last.force)) =>
         \A f \in DOMAIN meta :
            meta[f].enriched_at =
                IF f \in DOMAIN last.pre THEN last.pre[f].enriched_at ELSE 0
    /\ (last.op = "CmdSync" /\ last.force /\ ~last.dryRun) =>
         \A f \in DOMAIN meta : meta[f].enriched_at = 0
    /\ (last.op = "UpdateFromNote" \/ (last.op = "CmdSync" /\ ~last.dryRun)) =>
         \A f \in DOMAIN meta :
            (ParseOK(files, f) /\ (last.op = "CmdSync" \/ last.a = f)) =>
                /\ meta[f].content_hash = ContentHash(files[f].body)
                /\ meta[f].tags = files[f].tags
                /\ meta[f].summary = files[f].summary
                /\ meta[f].related = files[f].related
    /\ last.op /= "init" =>
         \A f \in DOMAIN meta :
            (/\ meta[f].enriched_at /= 0
             /\ (f \in DOMAIN last.pre => last.pre[f].enriched_at /= meta[f].enriched_at))
                => (last.op \in {"CmdUpdate", "UpdateFromNoteWithEnrichment"}
                    /\ last.a = f)

C9_Witness ==
    /\ last.op = "CmdSync" /\ ~last.force /\ ~last.dryRun
    /\ \E f \in DOMAIN last.pre \cap DOMAIN meta :
          /\ last.pre[f].enriched_at > 0
          /\ meta[f].enriched_at = last.pre[f].enriched_at
          /\ meta[f].content_hash /= last.pre[f].content_hash
    /\ \E g \in DOMAIN meta : g \notin DOMAIN last.pre /\ meta[g].enriched_at = 0

\* C17: the fingerprint is a function of the body only: notes with equal
\* bodies have equal fingerprints whatever their identifier, tags, summary and
\* related, and an update that changes only header fields of a note leaves
\* the note's stored fingerprint as it was.
C17_FingerprintBodyOnly ==
    /\ \A f \in DOMAIN files : files[f].valid =>
          /\ \A tg \in OtherTags, su \in OtherSummaries, r \in OtherRelated :
                NoteContentHash(NoteFile(files[f].body, tg, su, r))
                    = NoteContentHash(files[f])
          /\ \A g \in DOMAIN files :
                (files[g].valid /\ files[g].body = files[f].body)
                    => NoteContentHash(files[g]) = NoteContentHash(files[f])
    /\ (last.op = "CmdUpdate" /\ Has(last.pre, last.a)
            /\ last.pre[last.a].content_hash = ContentHash(files[last.a].body))
          => meta[last.a].content_hash = last.pre[last.a].content_hash

C17_Witness ==
    /\ last.op = "CmdUpdate"
    /\ Has(last.pre, last.a)
    /\ last.pre[last.a].summary /= meta[last.a].summary
    /\ last.pre[last.a].content_hash = meta[last.a].content_hash
    /\ \E g \in DOMAIN files \cap DOMAIN meta :
          /\ g /= last.a /\ files[g].valid
          /\ files[g].body = files[last.a].body
          /\ files[g].summary /= files[last.a].summary
          /\ meta[g].content_hash = meta[last.a].content_hash

\* The entry mirrors the note file f: fingerprint of the body, header fields.
Mirrors(m, fs, f) ==
    /\ Has(m, f)
    /\ m[f].content_hash = ContentHash(fs[f].body)
    /\ m[f].tags = fs[f].tags
    /\ m[f].summary = fs[f].summary
    /\ m[f].related = fs[f].related

\* C22: after a non-dry-run sync the index mirrors the note files: every note
\* file that parses has an entry whose fingerprint is that of the file's body
\* and whose tags, summary and related equal the file's header fields.
C22_SyncMirrorsFiles ==
    (last.op = "CmdSync" /\ ~last.dryRun) =>
        \A f \in DOMAIN files : files[f].valid => Mirrors(meta, files, f)

C22_Witness ==
    /\ last.op = "CmdSync" /\ ~last.dryRun /\ ~last.force
    /\ \E f \in DOMAIN files \cap DOMAIN last.pre :
          /\ files[f].valid
          /\ last.pre[f].content_hash = ContentHash(files[f].body)
          /\ last.pre[f].tags /= files[f].tags
          /\ Mirrors(meta, files, f)

\* C25, as stated: when a note file has an undecodable header, sync still
\* updates the entries of all other notes, and the malformed note's existing
\* entry, if any, is neither changed nor removed; diff still reports every
\* other note that needs enrichment.
C25_FailuresIsolated ==
    /\ (last.op = "CmdSync" /\ ~last.dryRun) =>
          \A bad \in DOMAIN files : ~files[bad].valid =>
             /\ \A f \in DOMAIN files : files[f].valid => Mirrors(meta, files, f)
             /\ Has(last.pre, bad) => (Has(meta, bad) /\ meta[bad] = last.pre[bad])
    /\ last.op = "CmdDiff" =>
          \A f \in DOMAIN files :
             (files[f].valid /\ NeedsEnrichment(meta, f, ContentHash(files[f].body)))
                => f \in DiffList(meta, files)

\* C25, amended: the same for a sync without --force; a sync --force
\* rebuilds the index from the notes that parse, so the malformed note has no
\* entry afterwards.
C25_FailuresIsolatedUnlessForced ==
    /\ (last.op = "CmdSync" /\ ~last.dryRun) =>
          \A bad \in DOMAIN files : ~files[bad].valid =>
             /\ \A f \in DOMAIN files : files[f].valid => Mirrors(meta, files, f)
             /\ (~last.force /\ Has(last.pre, bad))
                    => (Has(meta, bad) /\ meta[bad] = last.pre[bad])
             /\ ~last.force => (Has(meta, bad) <=> Has(last.pre, bad))
             /\ last.force => ~Has(meta, bad)
    /\ last.op = "CmdDiff" =>
          \A f \in DOMAIN files :
             (files[f].valid /\ NeedsEnrichment(meta, f, ContentHash(files[f].body)))
                => f \in DiffList(meta, files)

C25_Witness ==
    /\ last.op = "CmdSync" /\ ~last.dryRun /\ ~last.force
    /\ ParseOK(files, "b.md")
    /\ "a.md" \in DOMAIN files /\ ~files["a.md"].valid
    /\ Has(last.pre, "a.md") /\ last.pre["a.md"].enriched_at > 0
    /\ meta["a.md"] = last.pre["a.md"]
    /\ ~Has(last.pre, "b.md")
    /\ Mirrors(meta, files, "b.md")

----------------------------------------------------------------------------
(* Properties of the neighbourhood traversal (SpecGraph)                   *)

\* C10: neighborhood(root, max_depth) terminates for every index and every
\* max_depth, also when the relation edges form cycles and self-references,
\* in the text rendering and in the JSON rendering.
C10_NeighborhoodTerminates == <>(trav.pc = "done")

C10_Witness ==
    /\ trav.pc = "done"
    /\ trav.depth = MaxDepth
    /\ Has(meta, trav.root)
    /\ trav.root \in Elems(meta[trav.root].related)
    /\ \E x \in DOMAIN meta :
          /\ x /= trav.root
          /\ x \in Elems(meta[trav.root].related)
          /\ trav.root \in Elems(meta[x].related)
    /\ Len(trav.out) >= 3

\* Number of nodes (JSON) or lines (text) of the rendering that name id.
NodesOf(t, id) == Cardinality({i \in DOMAIN t.out : t.out[i][2] = id})

\* C11: during one neighbourhood traversal no identifier has its related list
\* followed more than once, also when it is reached again through another
\* path: the expanded identifiers are pairwise different, and each of them is
\* marked visited.
C11_ExpandedOnce ==
    /\ \A i \in DOMAIN trav.expanded, j \in DOMAIN trav.expanded :
          trav.expanded[i] = trav.expanded[j] => i = j
    /\ Elems(trav.expanded) \subseteq trav.visited

C11_Witness ==
    /\ trav.pc = "done"
    /\ trav.asJSON
    /\ meta = Triangle
    /\ Len(trav.expanded) = 3
    /\ NodesOf(trav, trav.root) >= 3

\* C12: the tree produced by neighborhood holds every identifier at most once
\* as a node; for three notes each related to the other two and max_depth 5
\* it has exactly 3 nodes, in the text and in the JSON rendering.
C12_EachIdOneNode ==
    trav.pc = "done" =>
        /\ \A id \in Ids : NodesOf(trav, id) <= 1
        /\ (meta = Triangle /\ trav.depth = 5) => Len(trav.out) = 3

\* C13: with max_depth 0 the result is the root alone; with max_depth N every
\* node is at most N hops below the root; for the chain a - b - c,
\* neighborhood(a, 1) is a with the single child b and neighborhood(a, 2) is
\* a, its child b, and b's only child c.
C13_DepthSemantics ==
    trav.pc = "done" =>
        /\ trav.depth = 0 => trav.out = <<<<0, trav.root>>>>
        /\ trav.depth >= 0 => \A i \in DOMAIN trav.out : trav.out[i][1] <= trav.depth
        /\ (meta = Chain /\ trav.root = "a.md" /\ trav.depth = 1)
              => trav.out = <<<<0, "a.md">>, <<1, "b.md">>>>
        /\ (meta = Chain /\ trav.root = "a.md" /\ trav.depth = 2)
              => trav.out = <<<<0, "a.md">>, <<1, "b.md">>, <<2, "c.md">>>>

----------------------------------------------------------------------------
(* Properties of getSharedTags (SpecTags)                                  *)

FoldedTags(s) == {Fold(s[i]) : i \in DOMAIN s}

\* C14: shared_tags(id1, id2) is the case-insensitive intersection of the two
\* entries' tags: a tag is in the result exactly when it occurs in id1's tags
\* and some tag of id2 equals it ignoring case; the result is empty when
\* either identifier has no entry; shared_tags(id1, id2) and
\* shared_tags(id2, id1) hold the same tags up to case.
C14_SharedTagsIntersection ==
    last.op = "getSharedTags" =>
        /\ (Has(meta, last.a) /\ Has(meta, last.b)) =>
              \A t \in TagNames :
                 t \in Elems(last.res) <=>
                    /\ t \in Elems(meta[last.a].tags)
                    /\ Fold(t) \in FoldedTags(meta[last.b].tags)
        /\ (~Has(meta, last.a) \/ ~Has(meta, last.b)) => last.res = <<>>
        /\ FoldedTags(last.res) = FoldedTags(getSharedTags(meta, last.b, last.a))

C14_Witness ==
    /\ last.op = "getSharedTags"
    /\ Has(meta, last.a) /\ Has(meta, last.b) /\ last.a /= last.b
    /\ meta[last.a].tags = <<"Go", "ai">>
    /\ meta[last.b].tags = <<"go", "GO">>
    /\ last.res = <<"Go">>
    /\ getSharedTags(meta, last.b, last.a) = <<"go", "GO">>

----------------------------------------------------------------------------
(* Properties of the note codec (SpecCodec)                                *)

\* C15: for every note record r, parsing the serialization of r succeeds and
\* yields a record whose body, created, tags, summary and related equal
\* those of r.
C15_CodecRoundTrip ==
    (codec.pc = "parsed" /\ codec.from = "note") =>
        /\ ~codec.err
        /\ codec.parsed = codec.note

\* Lines of the text, from the second on, that consist only of the marker.
ClosingLines(ls) == {j \in 2..Len(ls) : ls[j] = <<Marker>>}

\* The text starts with the marker line, line break included.
StartsWithMarkerLine(ls) == Len(ls) >= 2 /\ ls[1] = <<Marker>>

\* C16: parse yields the whole input as body with an empty header, and no
\* error, exactly when the input does not start with the marker line or no
\* later line is only the marker; otherwise the header is the text between the
\* opening marker line and the first such line and the body is everything
\* after that line; parse fails only when that header cannot be decoded.
C16_ParseCases ==
    (codec.pc = "parsed" /\ codec.from = "text") =>
        LET ls == SplitLines(codec.text)
            whole == ~codec.err /\ codec.parsed = [ZeroNote EXCEPT !.body = codec.text]
        IN  IF ~StartsWithMarkerLine(ls) \/ ClosingLines(ls) = {}
            THEN whole
            ELSE LET j == CHOOSE k \in ClosingLines(ls) :
                              \A l \in ClosingLines(ls) : k <= l
                     y == YamlUnmarshal(JoinLines(SubSeq(ls, 2, j - 1)))
                     body == JoinLines(SubSeq(ls, j + 1, Len(ls)))
                 IN  /\ ~whole
                     /\ codec.err = y.err
                     /\ ~y.err => codec.parsed = [y.fm EXCEPT !.body = body]

\* C24: created is immutable: when update rewrites a note file, its own or
\* that of a related note, parsing the file afterwards succeeds and returns
\* the created value that parsing it returned before.
C24_CreatedImmutable ==
    codec.pc = "reparsed" =>
        /\ ~codec.err
        /\ codec.parsed.created = codec.note.created

\* C30: update never changes a note body: after update has rewritten a note
\* file, its own or that of a related note, the file parses and its body is
\* the body parsed before the command, and the fingerprint computed for the
\* index is the fingerprint of the body the file has afterwards.
C30_UpdateKeepsBody ==
    codec.pc = "reparsed" =>
        /\ ~codec.err
        /\ codec.parsed.body = codec.note.body
        /\ codec.hash = TextContentHash(codec.parsed.body)

\* A note with a body that holds a marker line was rewritten with new tags.
C30_Witness ==
    /\ codec.pc = "reparsed"
    /\ codec.parsed.tags /= codec.note.tags
    /\ \E i \in DOMAIN codec.note.body : codec.note.body[i] = Marker

----------------------------------------------------------------------------
(* Properties of the store on disk (SpecStore)                             *)

\* The file exists and is not a document json.Unmarshal accepts.
Corrupt(d) == d.exists /\ JsonUnmarshal(d.data).err

IndexCommands == {"CmdUpdate", "CmdSync"} \cup ReadCommands

\* C18: save is all-or-nothing: when save fails or the process stops at any
\* point during save, the store on disk is the complete newly serialized
\* mapping or the complete prior store, never an empty or partial document.
C18_SaveAllOrNothing ==
    last.op = "SaveInterrupted" =>
        \/ DiskOf(store) = store.prior
        \/ DiskOf(store) = [exists |-> TRUE, data |-> store.buf]

\* C19 as stated: with a store that exists but is not valid structured data,
\* load returns an error, and every command that works on the index (update,
\* sync, diff, graph, meta, enrich) fails, leaving the store's content and
\* every note file as they were.
C19_CorruptStoreCommandsFail ==
    /\ (last.op = "LoadMetaFile" /\ Corrupt(last.pre)) => last.res
    /\ (last.op \in IndexCommands /\ Corrupt(last.pre)) =>
          /\ last.res
          /\ DiskOf(store) = last.pre
          /\ files = last.preFiles

\* C19, amended: the same for load and for every command that loads the
\* index, that is all of them but sync --force, which never reads the store.
C19_CorruptStoreLoadFails ==
    /\ (last.op = "LoadMetaFile" /\ Corrupt(last.pre)) =>
          last.res /\ DiskOf(store) = last.pre
    /\ (last.op \in IndexCommands /\ Corrupt(last.pre)
            /\ ~(last.op = "CmdSync" /\ last.force)) =>
          /\ last.res
          /\ store.pc = "idle"
          /\ DiskOf(store) = last.pre
          /\ files = last.preFiles
    /\ (last.op = "CmdSync" /\ last.force) => ~last.res

C19_Witness ==
    /\ last.op = "CmdUpdate"
    /\ last.res
    /\ Corrupt(last.pre)
    /\ Len(last.pre.data) >= 1 /\ last.pre.data[1] = LBrace
    /\ DiskOf(store) = last.pre
    /\ files = last.preFiles

\* C20: load of a missing store returns an empty, valid index and no error,
\* and does not create the store file.
C20_LoadMissingStore ==
    (last.op = "LoadMetaFile" /\ ~last.pre.exists) =>
        /\ ~last.res
        /\ meta = EmptyMap
        /\ ~store.exists

C20_Witness ==
    /\ last.op = "LoadMetaFile"
    /\ ~last.pre.exists
    /\ DOMAIN files /= {}
    /\ ~last.res
    /\ meta = EmptyMap
    /\ ~store.exists

\* C23: sync --dry-run changes nothing: the store on disk, its existence
\* included, and every note file are after the command what they were before
\* it, with and without --force, whatever the store and the directory held.
C23_DryRunChangesNothing ==
    (last.op = "CmdSync" /\ last.dryRun) =>
        /\ DiskOf(store) = last.pre
        /\ store.pc = "idle"
        /\ files = last.preFiles

\* A dry run with --force over a directory that differs from the store: a
\* note of the store was deleted and another one changed.
C23_Witness ==
    /\ last.op = "CmdSync" /\ last.dryRun /\ last.force /\ ~last.res
    /\ store.exists
    /\ LET onDisk == JsonUnmarshal(store.data)
       IN  /\ ~onDisk.err
           /\ \E f \in DOMAIN onDisk.files : f \notin DOMAIN files
           /\ \E f \in DOMAIN onDisk.files :
                 ParseOK(files, f) /\ ~Mirrors(onDisk.files, files, f)

----------------------------------------------------------------------------
(* Properties of save followed by load (SpecRoundTrip)                     *)

----------------------------------------------------------------------------
(* Properties of `notes new` (SpecNew)                                     *)

\* The name of minute now and its numbered suffixes are all in directory dir.
AllTaken(dir, now) == \A i \in 0..(SuffixLimit - 1) : <<now, i>> \in dir

\* C27: the filename `new` generates is not the name of a file already in
\* the directory: the command adds exactly one file and leaves every other
\* file as it was, so notes created in the same minute are pairwise distinct
\* and none is overwritten; `new` fails exactly when the name of the minute
\* and its 99 numbered suffixes are all taken, and then creates nothing.
C27_NewNamesUnique ==
    last.op = "CmdNewAt" =>
        /\ last.res <=> AllTaken(DOMAIN last.pre, last.b)
        /\ last.res => files = last.pre
        /\ ~last.res =>
              /\ last.a \notin DOMAIN last.pre
              /\ DOMAIN files = DOMAIN last.pre \cup {last.a}
              /\ \A f \in DOMAIN last.pre : files[f] = last.pre[f]

\* `new` has failed: the hundredth note of one minute was asked for.
C27_Witness ==
    /\ last.op = "CmdNewAt" /\ last.res
    /\ AllTaken(DOMAIN files, last.b)

----------------------------------------------------------------------------
(* Properties of two invocations at once (SpecRace)                        *)

\* Both invocations loaded before either saved, and p saved before q.
LoadLoadSaveSave(p, q) ==
    /\ Len(proc.log) = 4
    /\ {proc.log[1], proc.log[2]} = {<<"load", p>>, <<"load", q>>}
    /\ proc.log[3] = <<"save", p>>
    /\ proc.log[4] = <<"save", q>>

\* C28: with two invocations against one store, each loading the whole
\* store, changing its own entry and saving, after load, load, save, save
\* the store is the index the last saver held in memory: the entry of the
\* earlier saver's note is what it was before both ran, or missing, not what
\* the earlier saver wrote, and neither invocation has failed.
C28_LastSaverWins ==
    \A p \in Procs, q \in Procs :
        (p /= q /\ LoadLoadSaveSave(p, q)) =>
            LET disk == LoadMetaFile(store)
                before == LoadMetaFile([store EXCEPT !.exists = last.pre.exists,
                                                     !.data = last.pre.data])
            IN  /\ ~disk.err
                /\ disk.files = proc.mem[q]
                /\ Has(proc.mem[p], Target(p))
                /\ IF Has(before.files, Target(p))
                   THEN /\ Has(disk.files, Target(p))
                        /\ disk.files[Target(p)] = before.files[Target(p)]
                        /\ disk.files[Target(p)] /= proc.mem[p][Target(p)]
                   ELSE ~Has(disk.files, Target(p))
                /\ \A r \in Procs : proc.pc[r] = "saved"

\* Load, load, save, save has happened over a store that held both entries.
C28_Witness ==
    /\ LoadLoadSaveSave(1, 2)
    /\ DOMAIN LoadMetaFile([store EXCEPT !.exists = last.pre.exists,
                                         !.data = last.pre.data]).files = NoteIds

----------------------------------------------------------------------------
(* Properties of `notes update --related` (SpecUpdate)                     *)

\* The related list update compares --related with: the entry's, or the
\* file's when the note has no entry.
PrevRelated ==
    IF Has(last.pre, last.a) THEN last.pre[last.a].related
    ELSE last.preFiles[last.a].related

RelatedGiven == last.op = "CmdUpdate" /\ last.flags.related /= NotGiven

\* C21: after `update a --related L`, for every b with an index entry: if b
\* is in L then a is in b's related list, and if b was in a's previous
\* related list but is not in L then a is not in b's related list, whatever
\* the index and the note files were before.
C21_UpdateBidirectional ==
    RelatedGiven =>
        \A b \in DOMAIN meta :
            /\ b \in Elems(last.flags.related) => last.a \in Elems(meta[b].related)
            /\ (b \in Elems(PrevRelated) /\ b \notin Elems(last.flags.related))
                  => last.a \notin Elems(meta[b].related)

\* The notes `update a --related` names that have a file that parses and no
\* index entry.
UnindexedRelated ==
    {b \in NoteIds \ {last.a} :
        /\ b \in Elems(last.flags.related)
        /\ ParseOK(last.preFiles, b)
        /\ ~Has(last.pre, b)}

\* C29: when `update a --related b` names a note b with a file and no index
\* entry, then after the command b's file lists a as related and the index
\* has no entry for b, and the next sync without --dry-run creates b's entry
\* with a in its related list.
C29_UnindexedRelatedCatchesUp ==
    [][RelatedGiven =>
          \A b \in UnindexedRelated :
              /\ last.a \in Elems(files[b].related)
              /\ ~Has(meta, b)
              /\ last'.op = "CmdSync" =>
                    Has(meta', b) /\ last.a \in Elems(meta'[b].related)]_vars

====
